---- MODULE Spec2Model ----
(***************************************************************************)
(* Credential and token subsystem of the NotesApp backend:                 *)
(*   utils/password.rs   hash, compare                                     *)
(*   handler/auth.rs     register, login                                   *)
(*   data/db.rs          get_user, save_user, verified_token,              *)
(*                       add_verified_token                                *)
(*   utils/token.rs      create_token / decode_token (not among the source *)
(*                       files; modelled from the specification, 4.2)      *)
(*                                                                         *)
(* A string is a sequence of characters; a character is a one-element      *)
(* TLA+ string, a non-ASCII character is written by its code point         *)
(* ("u00F6" is o-umlaut).  str::len() counts UTF-8 bytes, the validator's  *)
(* length() counts characters.                                             *)
(*                                                                         *)
(* Specifications:                                                         *)
(*   SpecPwd   hash and compare on their own                               *)
(*   Spec      the handlers and the store calls on the table at start      *)
(*   SpecTok   the token service on its own                                *)
(*   SpecReg   register from its save_user call on                         *)
(*   SpecVtm   the verification-token store calls and their callers        *)
(***************************************************************************)
EXTENDS Integers, Sequences, FiniteSets, TLC

VARIABLES
    pw_op,      \* password.rs: the call last made ("none", "hash", "compare")
    pw_in,      \* password.rs: its plaintext argument
    pw_stored,  \* password.rs: compare's hashed_pwd argument
    pw_res,     \* password.rs: what the call returned
    users,      \* the users table (schema.rs), by id
    env,        \* AppState.env: jwt_secret, jwt_maxage
    now,        \* Utc::now(), in minutes
    nticks,     \* how often the clock has advanced
    mailbox,    \* the verification mails sent: <<email, token>>
    last,       \* the request or store call last made, and what it returned
    loginResp,  \* the last login response per failure case
    superseded, \* <<user id, token>>: tokens a later add_verified_token replaced
    consumed,   \* tokens for which verified_token returned Ok having matched a row
    jwts,       \* session tokens on the wire, with how each came about
    tok_last,   \* the validation last made, and what it returned
    pending     \* per <<user id, purpose>>: the token generated for it and not
                \* consumed or replaced for that purpose since, with its expiry

pwdVars == <<pw_op, pw_in, pw_stored, pw_res>>

sysVars == <<users, env, mailbox, last, loginResp, superseded, consumed>>

clockVars == <<now, nticks>>

tokVars == <<jwts, tok_last>>

vtmVars == <<pending>>

vars == <<pw_op, pw_in, pw_stored, pw_res, users, env, now, nticks, mailbox, last,
          loginResp, superseded, consumed, jwts, tok_last, pending>>

(***************************************************************************)
(* Bounds of the model.                                                    *)
(***************************************************************************)
\* plaintexts are tried up to MAX_PASSWORD_LENGTH + MaxExtraLen characters
MaxExtraLen == 2

\* rows the users table can hold
MaxUsers == 2

\* how often the clock advances
MaxTicks == 2

\* session tokens kept on the wire
MaxJwts == 2

(***************************************************************************)
(* Strings.                                                                *)
(***************************************************************************)
Rep(c, n) == [i \in 1..n |-> c]

\* characters outside ASCII used by the sources; each is 2 bytes in UTF-8
NonAscii == {"u00F6", "u00C4", "u00D6"}

Utf8Len(c) == IF c \in NonAscii THEN 2 ELSE 1

\* str::len(): the length in bytes, the sum of the characters' UTF-8 widths
ByteLen(s) ==
    Cardinality({i \in 1..Len(s) : Utf8Len(s[i]) = 1})
        + 2 * Cardinality({i \in 1..Len(s) : Utf8Len(s[i]) = 2})

\* chars().count(): the length in characters
CharLen(s) == Len(s)

\* [a-zA-Z0-9]
Alnum ==
    {"a", "b", "c", "d", "e", "f", "g", "h", "i", "j", "k", "l", "m",
     "n", "o", "p", "q", "r", "s", "t", "u", "v", "w", "x", "y", "z",
     "A", "B", "C", "D", "E", "F", "G", "H", "I", "J", "K", "L", "M",
     "N", "O", "P", "Q", "R", "S", "T", "U", "V", "W", "X", "Y", "Z",
     "0", "1", "2", "3", "4", "5", "6", "7", "8", "9"}

(***************************************************************************)
(* utils/password.rs                                                       *)
(***************************************************************************)
MAX_PASSWORD_LENGTH == 128

\* "öasldgjfAFGÄLÖJAdfgadfgasdfö"
SALT_STR ==
    <<"u00F6", "a", "s", "l", "d", "g", "j", "f", "A", "F", "G", "u00C4", "L",
      "u00D6", "J", "A", "d", "f", "g", "a", "d", "f", "g", "a", "s", "d", "f",
      "u00F6">>

\* the characters a PHC salt may hold: [a-zA-Z0-9/+.-]
SaltAlphabet == Alnum \cup {"/", "+", ".", "-"}

\* Salt::try_from(&str): Ok iff 4..64 bytes, all of the salt alphabet
SaltTryFromOk(s) ==
    /\ ByteLen(s) >= 4
    /\ ByteLen(s) <= 64
    /\ \A i \in 1..Len(s) : s[i] \in SaltAlphabet

\* Argon2's digest of (password, salt) as text: an idealised hash, a
\* different text for every different pair.
Argon2Digest(pwd, salt) == <<"H", "(">> \o pwd \o <<",">> \o salt \o <<")">>

\* PasswordHash::to_string(): the PHC string, written as its '$'-separated
\* fields ("$argon2id$v=19$m=19456,t=2,p=1$salt$digest" starts with '$', so
\* its first field is empty).
PhcString(alg, salt, digest) ==
    << <<>>, <<alg>>, <<"v=19">>, <<"m=19456,t=2,p=1">>, salt, digest >>

\* the algorithm identifiers Argon2::default() verifies
Argon2Idents == {"argon2d", "argon2i", "argon2id"}

\* the identifiers PasswordHash::new accepts as an algorithm
PhcIdents == Argon2Idents \cup {"scrypt", "pbkdf2-sha256"}

NoPhc == [ok |-> FALSE, alg |-> "", hasHash |-> FALSE, salt |-> <<>>, hash |-> <<>>]

\* PasswordHash::new(s): the string must start with '$', name an algorithm and
\* hold at most version, parameters, salt and hash after it.
PasswordHashNew(s) ==
    IF \/ Len(s) < 2
       \/ Len(s) > 6
       \/ s[1] # <<>>
       \/ Len(s[2]) # 1
    THEN NoPhc
    ELSE IF s[2][1] \notin PhcIdents
    THEN NoPhc
    ELSE IF Len(s) = 6
    THEN [ok |-> TRUE, alg |-> s[2][1], hasHash |-> TRUE, salt |-> s[5], hash |-> s[6]]
    ELSE [ok |-> TRUE, alg |-> s[2][1], hasHash |-> FALSE, salt |-> <<>>, hash |-> <<>>]

\* Argon2::default().verify_password(pwd, parsed).map_or(false, |_| true)
VerifyPassword(pwd, ph) ==
    /\ ph.hasHash
    /\ ph.alg \in Argon2Idents
    /\ ph.hash = Argon2Digest(pwd, ph.salt)

\* a Result<_, ErrorMessage>, or the panic of an unwrap()
PwOk(str, b) == [tag |-> "Ok", err |-> "", str |-> str, bool |-> b]
PwErr(e) == [tag |-> "Err", err |-> e, str |-> <<>>, bool |-> FALSE]
PwPanic == [tag |-> "Panic", err |-> "", str |-> <<>>, bool |-> FALSE]
PwNone == [tag |-> "None", err |-> "", str |-> <<>>, bool |-> FALSE]

hash_mut_ge(pwd) ==
    IF pwd = <<>> THEN PwErr("EmptyPassword")
    ELSE IF ByteLen(pwd) >= MAX_PASSWORD_LENGTH THEN PwErr("ExceededMaxPasswordLength")
    ELSE IF ~SaltTryFromOk(SALT_STR) THEN PwPanic
    ELSE PwOk(PhcString("argon2id", SALT_STR, Argon2Digest(pwd, SALT_STR)), FALSE)

\* pub fn hash(password) -> Result<String, ErrorMessage>
hash(pwd) ==
    IF pwd = <<>> THEN PwErr("EmptyPassword")
    ELSE IF ByteLen(pwd) > MAX_PASSWORD_LENGTH THEN PwErr("ExceededMaxPasswordLength")
    ELSE IF ~SaltTryFromOk(SALT_STR) THEN PwPanic
    ELSE PwOk(PhcString("argon2id", SALT_STR, Argon2Digest(pwd, SALT_STR)), FALSE)

compare_mut_parse(password, hashed_pwd) ==
    IF password = <<>> THEN PwErr("EmptyPassword")
    ELSE IF ByteLen(password) > MAX_PASSWORD_LENGTH THEN PwErr("ExceededMaxPasswordLength")
    ELSE PwOk(<<>>, VerifyPassword(password, PasswordHashNew(hashed_pwd)))

\* pub fn compare(password, hashed_pwd) -> Result<bool, ErrorMessage>
compare(password, hashed_pwd) ==
    IF password = <<>> THEN PwErr("EmptyPassword")
    ELSE IF ByteLen(password) > MAX_PASSWORD_LENGTH THEN PwErr("ExceededMaxPasswordLength")
    ELSE IF ~PasswordHashNew(hashed_pwd).ok THEN PwErr("InvalidHashFormat")
    ELSE PwOk(<<>>, VerifyPassword(password, PasswordHashNew(hashed_pwd)))

(***************************************************************************)
(* The password routines applied to bounded inputs.                        *)
(***************************************************************************)
PwdChars == {"a", "u00F6"}

Plaintexts == {Rep(c, n) : c \in PwdChars, n \in 0..(MAX_PASSWORD_LENGTH + MaxExtraLen)}

\* a salt Salt::try_from accepts
GoodSalt == <<"c", "2", "F", "s", "d", "H", "N", "h", "b", "H", "Q">>

Password1 == Rep("a", 9)

\* a well-formed argon2id hash of Password1, as another build of hash() with a
\* valid salt writes it
GoodHash1 == PhcString("argon2id", GoodSalt, Argon2Digest(Password1, GoodSalt))

NotAValidHash == << <<"not-a-valid-hash">> >>

StoredStrings ==
    { GoodHash1,
      NotAValidHash,
      <<>>,
      PhcString("scrypt", GoodSalt, Argon2Digest(Password1, GoodSalt)),
      << <<>>, <<"argon2id">> >>,
      PhcString("argon2id", GoodSalt, Argon2Digest(Password1, GoodSalt)) \o << <<"x">> >> }

(***************************************************************************)
(* utils/token.rs: create_token and decode_token.  The file is not among   *)
(* the sources; the two are modelled from the specification (4.2): a token *)
(* carries the subject and an issued-at/expiry pair and is signed over     *)
(* them.  The signature is an idealised MAC: it verifies under the signing *)
(* secret and for the signed fields only.  Times are in minutes.           *)
(***************************************************************************)
Mac(secret, sub, iat, exp) == [key |-> secret, sub |-> sub, iat |-> iat, exp |-> exp]

NoJwt == [sub |-> 0, iat |-> 0, exp |-> 0, mac |-> Mac("", 0, 0, 0)]

\* issue(subject_id, secret, ttl_minutes) at time t
create_token(sub, secret, ttl, t) ==
    [sub |-> sub, iat |-> t, exp |-> t + ttl, mac |-> Mac(secret, sub, t, t + ttl)]

TokOk(sub) == [tag |-> "Ok", err |-> "", sub |-> sub]
TokErr(e) == [tag |-> "Err", err |-> e, sub |-> 0]
TokNone == [tag |-> "None", err |-> "", sub |-> 0]

decode_token_mut_nosig(tok, secret, t) ==
    IF t > tok.exp THEN TokErr("Expired")
    ELSE TokOk(tok.sub)

\* validate(token_string, secret) at time t
decode_token(tok, secret, t) ==
    IF tok.mac # Mac(secret, tok.sub, tok.iat, tok.exp) THEN TokErr("InvalidSignature")
    ELSE IF t > tok.exp THEN TokErr("Expired")
    ELSE TokOk(tok.sub)

(***************************************************************************)
(* errors/mod.rs                                                           *)
(***************************************************************************)
\* ErrorMessage::to_str
ErrorMessageStr(e) ==
    CASE e = "EmptyPassword" -> "Password is required"
      [] e = "ExceededMaxPasswordLength" -> "Max password length is 128"
      [] e = "HashingError" -> "Hashing error"
      [] e = "InvalidHashFormat" -> "Invalid hash format"
      [] e = "InvalidToken" -> "Invalid token"
      [] e = "ServerError" -> "Server error"
      [] e = "WrongCredentials" -> "Wrong credentials provided"
      [] e = "EmailExists" -> "Email already exists"
      [] e = "UserNoLongerExist" -> "User no longer exist"
      [] e = "TokenNotProvided" -> "Token not provided"
      [] e = "PermissionDenied" -> "Permission denied"
      [] e = "UserNotAuthenticated" -> "User not authenticated"

\* A response: the status code, the envelope's status ("success" or "fail"),
\* the lines of its message, the session token of the body and the Max-Age of
\* the cookie in seconds (-1: no cookie).
Response(status, success, message, token, max_age) ==
    [status |-> status, success |-> success, message |-> message,
     token |-> token, max_age |-> max_age]

NoResp == Response(0, FALSE, {}, NoJwt, -1)

\* HttpError { message, status } as a response
HttpError(status, message) == Response(status, FALSE, message, NoJwt, -1)

server_error(message) == HttpError(500, message)

bad_request(message) == HttpError(400, message)

unique_constraint_violation(message) == HttpError(409, message)

(***************************************************************************)
(* data/dtos.rs: the validator rules of the request bodies.                *)
(***************************************************************************)
\* the characters of an address's user part, [a-zA-Z0-9.!#$%&*+/=?^_{|}~-]
\* and the two quote characters, which no address of the model uses
EmailUserChars ==
    Alnum \cup {".", "!", "#", "$", "%", "&", "*", "+", "/", "=", "?",
                "^", "_", "{", "|", "}", "~", "-"}

\* the characters of an address' domain part
EmailDomainChars == Alnum \cup {".", "-"}

\* validator's email rule: a user part and a domain part around the last '@'
ValidateEmail(e) ==
    /\ \E i \in 1..Len(e) : e[i] = "@"
    /\ LET k == CHOOSE i \in 1..Len(e) :
                    e[i] = "@" /\ \A j \in (i + 1)..Len(e) : e[j] # "@"
           user == SubSeq(e, 1, k - 1)
           dom == SubSeq(e, k + 1, Len(e))
       IN  /\ user # <<>>
           /\ \A i \in 1..Len(user) : user[i] \in EmailUserChars
           /\ dom # <<>>
           /\ \A i \in 1..Len(dom) : dom[i] \in EmailDomainChars
           /\ dom[1] \notin {".", "-"}
           /\ dom[Len(dom)] \notin {".", "-"}

ValidateRegister_mut_nomatch(body) ==
    (IF CharLen(body.name) < 1 THEN {"Name is required"} ELSE {})
    \cup (IF CharLen(body.email) < 1 THEN {"Email is required"} ELSE {})
    \cup (IF ~ValidateEmail(body.email) THEN {"Email address required"} ELSE {})
    \cup (IF CharLen(body.password) < 8
          THEN {"Password must contain 8 characters"} ELSE {})
    \cup (IF CharLen(body.confirm_password) < 8
          THEN {"Password confirmation must contain 8 characters"} ELSE {})

\* RegisterUserDto::validate: the messages of the rules the body breaks
ValidateRegister(body) ==
    (IF CharLen(body.name) < 1 THEN {"Name is required"} ELSE {})
    \cup (IF CharLen(body.email) < 1 THEN {"Email is required"} ELSE {})
    \cup (IF ~ValidateEmail(body.email) THEN {"Email address required"} ELSE {})
    \cup (IF CharLen(body.password) < 8
          THEN {"Password must contain 8 characters"} ELSE {})
    \cup (IF CharLen(body.confirm_password) < 8
          THEN {"Password confirmation must contain 8 characters"} ELSE {})
    \cup (IF body.confirm_password # body.password
          THEN {"Passwords do not match"} ELSE {})

\* LoginUserDto::validate
ValidateLogin(body) ==
    (IF CharLen(body.email) < 1 THEN {"Email is required"} ELSE {})
    \cup (IF ~ValidateEmail(body.email) THEN {"Email is invalid"} ELSE {})
    \cup (IF CharLen(body.password) < 8
          THEN {"Password must contain 8 characters"} ELSE {})

(***************************************************************************)
(* models/users.rs, schema.rs, data/db.rs                                  *)
(***************************************************************************)
None == [some |-> FALSE, v |-> ""]
Some(x) == [some |-> TRUE, v |-> x]
NoTime == [some |-> FALSE, v |-> 0]
SomeTime(t) == [some |-> TRUE, v |-> t]

UserIds == 1..MaxUsers

\* a row of users (id is the key), or no row under that id
User(name, email, verified, password, verification_token, token_expires_at) ==
    [present |-> TRUE, name |-> name, email |-> email, verified |-> verified,
     password |-> password, verification_token |-> verification_token,
     token_expires_at |-> token_expires_at]

NoUser ==
    [present |-> FALSE, name |-> <<>>, email |-> <<>>, verified |-> FALSE,
     password |-> <<>>, verification_token |-> None, token_expires_at |-> NoTime]

\* what can go wrong in a store call whatever the data: the pool hands out no
\* connection, the statement fails, the blocking task fails
Faults == {"none", "pool", "query", "join"}

DbOk == [ok |-> TRUE, variant |-> "", kind |-> "", msg |-> ""]
DbErr(variant, kind, msg) == [ok |-> FALSE, variant |-> variant, kind |-> kind, msg |-> msg]

\* pool.get().map_err(..)
PoolError == DbErr("DatabaseError", "UniqueViolation", "Failed to get DB connection")

\* Err(DieselError::QueryBuilderError(Box::new(err)))
JoinError == DbErr("QueryBuilderError", "", "task failed")

\* the rows get_user's filters select
GetUserRows(us, user_id, name, email, token) ==
    {i \in UserIds :
        /\ us[i].present
        /\ (user_id.some => i = user_id.v)
        /\ (name.some => us[i].name = name.v)
        /\ (email.some => us[i].email = email.v)
        /\ (token.some => us[i].verification_token = Some(token.v))}

\* get_user: the result, and the rows first() may return (none: Ok(None))
get_user(us, user_id, name, email, token, fault) ==
    CASE fault = "join" -> [res |-> JoinError, rows |-> {}]
      [] fault = "pool" -> [res |-> PoolError, rows |-> {}]
      [] fault = "query" ->
            [res |-> DbErr("DatabaseError", "ClosedConnection", "statement failed"),
             rows |-> {}]
      [] OTHER -> [res |-> DbOk, rows |-> GetUserRows(us, user_id, name, email, token)]

\* the ids no row uses
FreeIds(us) == {i \in UserIds : ~us[i].present}

\* the unique index on email rejects the insert
EmailTaken(us, email) == \E i \in UserIds : us[i].present /\ us[i].email = email

\* save_user: the result and the table after it; id is the new row's key
save_user(us, id, name, email, password, verification_token, token_expires_at, fault) ==
    CASE fault = "join" -> [res |-> JoinError, users |-> us]
      [] fault = "pool" -> [res |-> PoolError, users |-> us]
      [] fault = "query" ->
            [res |-> DbErr("DatabaseError", "UniqueViolation", "statement failed"),
             users |-> us]
      [] OTHER ->
            IF EmailTaken(us, email)
            THEN [res |-> DbErr("DatabaseError", "UniqueViolation",
                                "duplicate key value violates unique constraint"),
                  users |-> us]
            ELSE [res |-> DbOk,
                  users |-> [us EXCEPT ![id] =
                                User(name, email, FALSE, password,
                                     Some(verification_token),
                                     SomeTime(token_expires_at))]]

\* the rows UPDATE .. WHERE verification_token = token touches
TokenRows(us, token) ==
    {i \in UserIds : us[i].present /\ us[i].verification_token = Some(token)}

\* diesel::update(users.filter(db_token.eq(token))).set(verified.eq(true)),
\* run at time t
verified_rows(us, token, t) ==
    [i \in UserIds |->
        IF i \in TokenRows(us, token)
        THEN [us[i] EXCEPT !.verified = TRUE]
        ELSE us[i]]

\* verified_token: Ok(()) however many rows the update touched
verified_token(us, token, t, fault) ==
    CASE fault = "join" -> [res |-> JoinError, users |-> us]
      [] fault = "pool" -> [res |-> PoolError, users |-> us]
      [] fault = "query" ->
            [res |-> DbErr("DatabaseError", "UniqueViolation", "statement failed"),
             users |-> us]
      [] OTHER -> [res |-> DbOk, users |-> verified_rows(us, token, t)]

token_rows_mut_keep(us, user_id, token, expires_at) ==
    [i \in UserIds |->
        IF us[i].present /\ i = user_id
        THEN [us[i] EXCEPT !.token_expires_at = SomeTime(expires_at)]
        ELSE us[i]]

\* diesel::update(users.filter(db_id.eq(user_id)))
\*     .set((db_token.eq(token), db_token_expires_at.eq(expires_at)))
token_rows(us, user_id, token, expires_at) ==
    [i \in UserIds |->
        IF us[i].present /\ i = user_id
        THEN [us[i] EXCEPT !.verification_token = Some(token),
                           !.token_expires_at = SomeTime(expires_at)]
        ELSE us[i]]

\* add_verified_token
add_verified_token(us, user_id, token, expires_at, fault) ==
    CASE fault = "join" -> [res |-> JoinError, users |-> us]
      [] fault = "pool" -> [res |-> PoolError, users |-> us]
      [] fault = "query" ->
            [res |-> DbErr("DatabaseError", "UniqueViolation", "statement failed"),
             users |-> us]
      [] OTHER -> [res |-> DbOk, users |-> token_rows(us, user_id, token, expires_at)]

(***************************************************************************)
(* The inputs the model tries.                                             *)
(***************************************************************************)
\* "aaaaaaaaa" is Password1; "bbbbbbbbb"
Password2 == Rep("b", 9)

EmailA == <<"a", "@", "x", ".", "c", "o", "m">>
EmailB == <<"b", "@", "x", ".", "c", "o", "m">>
NotAnEmail == <<"a", "x", ".", "c", "o", "m">>

Tokens == {"t1", "t2"}

RegisterUserDto(name, email, password, confirm_password) ==
    [name |-> name, email |-> email, password |-> password,
     confirm_password |-> confirm_password]

\* two bodies that keep every rule, and one body per rule broken
RegisterBodies ==
    { RegisterUserDto(<<"A">>, EmailA, Password1, Password1),
      RegisterUserDto(<<"B">>, EmailB, Password1, Password1),
      RegisterUserDto(<<>>, EmailA, Password1, Password1),
      RegisterUserDto(<<"A">>, NotAnEmail, Password1, Password1),
      RegisterUserDto(<<"A">>, EmailA, Rep("a", 3), Rep("a", 3)),
      RegisterUserDto(<<"A">>, EmailA, Password1, Password2) }

LoginBodies ==
    [email : {EmailA, EmailB, NotAnEmail},
     password : {Password1, Password2, Rep("a", 3), Rep("a", MAX_PASSWORD_LENGTH + 1)}]

\* Duration::hours(24), in minutes
VERIFY_TTL_MIN == 24 * 60

\* the token ttl the configuration may set
JwtMaxAges == {60}

\* what the table holds when the server starts: rows written before, by this
\* or another build (hash() itself stores nothing, see C1)
SeedRows1 ==
    { NoUser,
      User(<<"A">>, EmailA, FALSE, GoodHash1, Some("t1"), SomeTime(1)),
      User(<<"A">>, EmailA, FALSE, NotAValidHash, Some("t1"), SomeTime(1)) }

SeedRows2 ==
    { NoUser,
      User(<<"B">>, EmailB, FALSE, GoodHash1, Some("t2"), SomeTime(VERIFY_TTL_MIN)) }

(***************************************************************************)
(* What the model records of the request or store call being answered      *)
(* (op "none": none is), as far as the claims read it.                     *)
(***************************************************************************)
NoLast ==
    [op |-> "none", resp |-> NoResp, panic |-> FALSE, valid |-> FALSE,
     fault |-> "none", email |-> <<>>, known |-> FALSE, found |-> 0,
     tok |-> "", dbok |-> FALSE, rows |-> {}, prior |-> FALSE,
     expired |-> {}, newly |-> {},
     body |-> RegisterUserDto(<<>>, <<>>, <<>>, <<>>), mail |-> "none",
     purpose |-> "none"]

LoginCases == {"nouser", "wrongpwd"}

(***************************************************************************)
(* handler/auth.rs                                                         *)
(***************************************************************************)
\* db_err.type_id(): db_err is the DatabaseErrorKind of the error, and type_id
\* names its type, whatever the kind
TypeIdOfKind(kind) == "DatabaseErrorKind"

RegisteredMessage ==
    "Registration successfull Please check your emil to verify your account."

\* the new row's key (0: the table is full)
NewId(us) ==
    IF FreeIds(us) = {} THEN 0
    ELSE CHOOSE i \in FreeIds(us) : \A j \in FreeIds(us) : i <= j

\* register's response to the result of save_user
RegisterResult(res) ==
    IF res.ok
    THEN Response(201, TRUE, {RegisteredMessage}, NoJwt, -1)
    ELSE IF res.variant = "DatabaseError"
    THEN IF TypeIdOfKind(res.kind) = TypeIdOfKind("UniqueViolation")
         THEN unique_constraint_violation({ErrorMessageStr("EmailExists")})
         ELSE server_error({"Database error"})
    ELSE server_error({res.msg})

\* pub async fn register; the token's value, the store's fault and the
\* mail's fate are drawn only when the handler gets as far as the store
Register ==
    \E body \in RegisterBodies :
        LET errs == ValidateRegister(body)
            h == hash(body.password)
            calls_store == errs = {} /\ h.tag = "Ok"
        IN  \E vt \in (IF calls_store THEN Tokens ELSE {"t1"}),
               fault \in (IF calls_store THEN Faults ELSE {"none"}),
               mail_ok \in (IF calls_store THEN BOOLEAN ELSE {FALSE}) :
                LET saved == save_user(users, NewId(users), body.name, body.email,
                                       h.str, vt, now + VERIFY_TTL_MIN, fault)
                    resp == IF errs # {} THEN bad_request(errs)
                            ELSE IF h.tag = "Panic" THEN NoResp
                            ELSE IF h.tag = "Err"
                            THEN server_error({ErrorMessageStr(h.err)})
                            ELSE RegisterResult(saved.res)
                IN  /\ last.op = "none"
                    /\ (calls_store /\ fault = "none" /\ ~EmailTaken(users, body.email))
                            => NewId(users) # 0
                    /\ users' = IF calls_store THEN saved.users ELSE users
                    /\ mailbox' = IF calls_store /\ saved.res.ok /\ mail_ok
                                  THEN mailbox \cup {<<body.email, vt>>}
                                  ELSE mailbox
                    /\ last' = [NoLast EXCEPT !.op = "register", !.resp = resp,
                                              !.panic = (errs = {} /\ h.tag = "Panic"),
                                              !.valid = (errs = {}), !.fault = fault,
                                              !.email = body.email,
                                              !.known = EmailTaken(users, body.email),
                                              !.tok = vt, !.body = body]
                    /\ UNCHANGED <<env, now, nticks, loginResp, superseded, consumed>>
                    /\ UNCHANGED <<pwdVars, tokVars, vtmVars>>

login_nouser_mut(x) == bad_request({ErrorMessageStr("UserNoLongerExist")})

\* result.ok_or(HttpError::bad_request(WrongCredentials))
login_nouser(x) == bad_request({ErrorMessageStr("WrongCredentials")})

\* time::Duration::minutes(jwt_maxage * 60), as the Max-Age in seconds
cookie_max_age(maxage) == (maxage * 60) * 60

\* login's response once get_user has returned row u (0: no row)
LoginResult(body, u) ==
    IF u = 0 THEN login_nouser(body)
    ELSE LET c == compare(body.password, users[u].password)
         IN  IF c.tag # "Ok" THEN bad_request({ErrorMessageStr("WrongCredentials")})
             ELSE IF c.bool
             THEN Response(200, TRUE, {},
                           create_token(u, env.jwt_secret, env.jwt_maxage, now),
                           cookie_max_age(env.jwt_maxage))
             ELSE bad_request({ErrorMessageStr("WrongCredentials")})

\* pub async fn login
Login ==
    \E body \in LoginBodies :
      \E fault \in (IF ValidateLogin(body) = {} THEN Faults ELSE {"none"}) :
        LET errs == ValidateLogin(body)
            got == get_user(users, None, None, Some(body.email), None, fault)
            u == IF got.rows = {} THEN 0 ELSE CHOOSE i \in got.rows : TRUE
            resp == IF errs # {} THEN bad_request(errs)
                    ELSE IF ~got.res.ok THEN server_error({got.res.msg})
                    ELSE LoginResult(body, u)
            case == IF errs # {} \/ ~got.res.ok THEN "none"
                    ELSE IF u = 0 THEN "nouser"
                    ELSE IF compare(body.password, users[u].password) = PwOk(<<>>, TRUE)
                    THEN "matched"
                    ELSE "wrongpwd"
        IN  /\ last.op = "none"
            /\ last' = [NoLast EXCEPT !.op = "login", !.resp = resp,
                                      !.valid = (errs = {}), !.fault = fault,
                                      !.email = body.email, !.known = (u # 0),
                                      !.found = IF case = "matched" THEN u ELSE 0]
            /\ loginResp' = IF case \in LoginCases
                            THEN [loginResp EXCEPT ![case] = resp]
                            ELSE loginResp
            /\ UNCHANGED <<users, env, now, nticks, mailbox, superseded, consumed>>
            /\ UNCHANGED <<pwdVars, tokVars, vtmVars>>

(***************************************************************************)
(* The store calls no handler of the sources makes (verify_email has no    *)
(* body): verified_token consumes a verification token, add_verified_token *)
(* generates one, get_user looks a user up by token.                       *)
(***************************************************************************)
\* the rows holding the token whose expiry is before t
ExpiredRows(us, token, t) ==
    {i \in TokenRows(us, token) :
        us[i].token_expires_at.some /\ us[i].token_expires_at.v < t}

\* the rows whose verified flag the call set
NewlyVerified(before, after) ==
    {i \in UserIds : after[i].verified /\ ~before[i].verified}

VerifiedToken ==
    \E token \in Tokens, fault \in Faults :
        LET r == verified_token(users, token, now, fault)
        IN  /\ last.op = "none"
            /\ users' = r.users
            /\ consumed' = IF r.res.ok /\ TokenRows(users, token) # {}
                           THEN consumed \cup {token}
                           ELSE consumed
            /\ last' = [NoLast EXCEPT !.op = "verified_token",
                                      !.tok = token, !.dbok = r.res.ok,
                                      !.rows = TokenRows(users, token),
                                      !.prior = (token \in consumed),
                                      !.expired = ExpiredRows(users, token, now),
                                      !.newly = NewlyVerified(users, r.users)]
            /\ UNCHANGED <<env, now, nticks, mailbox, loginResp, superseded>>
            /\ UNCHANGED <<pwdVars, tokVars, vtmVars>>

AddVerifiedToken ==
    \E user_id \in UserIds, token \in Tokens, fault \in Faults :
        LET r == add_verified_token(users, user_id, token, now + VERIFY_TTL_MIN, fault)
            old == users[user_id].verification_token
            replaced == IF r.res.ok /\ users[user_id].present /\ old.some /\ old.v # token
                        THEN {<<user_id, old.v>>}
                        ELSE {}
            issued == IF r.res.ok /\ users[user_id].present
                      THEN {<<user_id, token>>}
                      ELSE {}
        IN  /\ last.op = "none"
            /\ users' = r.users
            /\ superseded' = (superseded \cup replaced) \ issued
            /\ consumed' = IF issued # {} THEN consumed \ {token} ELSE consumed
            /\ last' = [NoLast EXCEPT !.op = "add_verified_token",
                                      !.tok = token, !.dbok = r.res.ok,
                                      !.found = user_id]
            /\ UNCHANGED <<env, now, nticks, mailbox, loginResp>>
            /\ UNCHANGED <<pwdVars, tokVars, vtmVars>>

GetUserByToken ==
    \E token \in Tokens, fault \in Faults :
        LET got == get_user(users, None, None, None, Some(token), fault)
        IN  /\ last.op = "none"
            /\ \E u \in (IF got.rows = {} THEN {0} ELSE got.rows) :
                    last' = [NoLast EXCEPT !.op = "get_user",
                                           !.tok = token, !.dbok = got.res.ok,
                                           !.rows = got.rows, !.found = u]
            /\ UNCHANGED <<users, env, now, nticks, mailbox, loginResp, superseded,
                           consumed>>
            /\ UNCHANGED <<pwdVars, tokVars, vtmVars>>

\* the response is delivered, the call has returned
Return ==
    /\ last.op # "none"
    /\ last' = NoLast
    /\ UNCHANGED <<users, env, now, nticks, mailbox, loginResp, superseded, consumed>>
    /\ UNCHANGED <<pwdVars, tokVars, vtmVars>>

\* time passes: a verification token's lifetime
Tick ==
    /\ last.op = "none"
    /\ nticks < MaxTicks
    /\ now' = now + VERIFY_TTL_MIN
    /\ nticks' = nticks + 1
    /\ UNCHANGED <<sysVars, pwdVars, tokVars, vtmVars>>

(***************************************************************************)
(* register from its save_user call on (auth.rs:32-63), applied to a body  *)
(* that passed validation and to a hash string of its password: what the   *)
(* handler makes of the store's result and of the mail's fate.             *)
(***************************************************************************)
after_send_mut(created, send_ok) ==
    IF send_ok THEN created ELSE server_error({"Error sending verification email"})

\* if let Err(e) = send_email_result { eprintln!(..) }: the error is printed
\* and dropped, the response is the one of the insert
after_send(created, send_ok) == created

\* the bodies that pass RegisterUserDto::validate
ValidBodies == {b \in RegisterBodies : ValidateRegister(b) = {}}

RegisterStore ==
    \E body \in ValidBodies, vt \in Tokens, fault \in Faults, mail_ok \in BOOLEAN :
        LET hash_password == GoodHash1
            saved == save_user(users, NewId(users), body.name, body.email,
                               hash_password, vt, now + VERIFY_TTL_MIN, fault)
            resp == IF saved.res.ok
                    THEN after_send(RegisterResult(saved.res), mail_ok)
                    ELSE RegisterResult(saved.res)
        IN  /\ last.op = "none"
            /\ body.password = Password1
            /\ (fault = "none" /\ ~EmailTaken(users, body.email)) => NewId(users) # 0
            /\ users' = saved.users
            /\ mailbox' = IF saved.res.ok /\ mail_ok
                          THEN mailbox \cup {<<body.email, vt>>}
                          ELSE mailbox
            /\ last' = [NoLast EXCEPT !.op = "register", !.resp = resp,
                                      !.valid = TRUE, !.fault = fault,
                                      !.email = body.email,
                                      !.known = EmailTaken(users, body.email),
                                      !.tok = vt, !.body = body,
                                      !.dbok = saved.res.ok,
                                      !.mail = IF ~saved.res.ok THEN "none"
                                               ELSE IF mail_ok THEN "sent"
                                               ELSE "failed"]
            /\ UNCHANGED <<env, now, nticks, loginResp, superseded, consumed>>
            /\ UNCHANGED <<pwdVars, tokVars, vtmVars>>

(***************************************************************************)
(* The callers of the verification-token store calls.  A caller generates  *)
(* a token for a purpose (register's is the verification of the email      *)
(* address, auth.rs:26) and consumes one; add_verified_token and           *)
(* verified_token take no purpose, the row has one token column            *)
(* (users.rs:29-30).  Each call is one UPDATE statement, so the            *)
(* interleavings of two calls are the two orders of their statements.      *)
(***************************************************************************)
Purposes == {"EmailVerification", "PasswordReset"}

NoPending == [some |-> FALSE, v |-> "", exp |-> 0]
Pending(token, expires_at) == [some |-> TRUE, v |-> token, exp |-> expires_at]

\* the tokens of the rows the table holds at the start are register's
PendingOf(us) ==
    [k \in UserIds \X Purposes |->
        IF /\ k[2] = "EmailVerification"
           /\ us[k[1]].present
           /\ us[k[1]].verification_token.some
           /\ us[k[1]].token_expires_at.some
        THEN Pending(us[k[1]].verification_token.v, us[k[1]].token_expires_at.v)
        ELSE NoPending]

\* uuid::Uuid::new_v4(): values no row holds and no caller waits on
FreshTokens(us, pend) ==
    {t \in Tokens \cup {"t3", "t4"} :
        /\ \A i \in UserIds : us[i].verification_token # Some(t)
        /\ \A k \in DOMAIN pend : ~(pend[k].some /\ pend[k].v = t)}

\* a caller generates a token for a purpose
Generate ==
    \E user_id \in UserIds, purpose \in Purposes, fault \in Faults :
      \E token \in FreshTokens(users, pending) :
        LET r == add_verified_token(users, user_id, token, now + VERIFY_TTL_MIN, fault)
            done == r.res.ok /\ users[user_id].present
        IN  /\ last.op = "none"
            /\ users' = r.users
            /\ pending' = IF done
                          THEN [pending EXCEPT ![<<user_id, purpose>>] =
                                    Pending(token, now + VERIFY_TTL_MIN)]
                          ELSE pending
            /\ last' = [NoLast EXCEPT !.op = "add_verified_token",
                                      !.tok = token, !.dbok = r.res.ok,
                                      !.found = user_id, !.purpose = purpose]
            /\ UNCHANGED <<env, now, nticks, mailbox, loginResp, superseded, consumed>>
            /\ UNCHANGED <<pwdVars, tokVars>>

\* a caller consumes a token; the rows it matched stop waiting on it
Consume ==
    \E token \in Tokens \cup {"t3", "t4"}, fault \in Faults :
        LET r == verified_token(users, token, now, fault)
        IN  /\ last.op = "none"
            /\ users' = r.users
            /\ pending' = [k \in UserIds \X Purposes |->
                              IF /\ r.res.ok
                                 /\ k[1] \in TokenRows(users, token)
                                 /\ pending[k] = Pending(token, pending[k].exp)
                              THEN NoPending
                              ELSE pending[k]]
            /\ last' = [NoLast EXCEPT !.op = "verified_token",
                                      !.tok = token, !.dbok = r.res.ok,
                                      !.rows = TokenRows(users, token),
                                      !.newly = NewlyVerified(users, r.users)]
            /\ UNCHANGED <<env, now, nticks, mailbox, loginResp, superseded, consumed>>
            /\ UNCHANGED <<pwdVars, tokVars>>

(***************************************************************************)
(* The token service on its own: login's create_token call with any        *)
(* subject, secret and ttl, a token altered on the wire, a validation.     *)
(***************************************************************************)
Secrets == {"secretA", "secretB"}

TokTtls == {-1, 0, 1, 60}

JwtEntry(tok, how, sub, secret, ttl, at) ==
    [tok |-> tok, how |-> how, sub |-> sub, secret |-> secret, ttl |-> ttl, at |-> at]

NoEntry == JwtEntry(NoJwt, "none", 0, "", 0, 0)

NoValidation == [entry |-> NoEntry, secret |-> "", at |-> 0, res |-> TokNone]

TokIssue ==
    \E sub \in UserIds, secret \in Secrets, ttl \in TokTtls :
        /\ Cardinality(jwts) < MaxJwts
        /\ jwts' = jwts \cup
                {JwtEntry(create_token(sub, secret, ttl, now), "issued", sub, secret, ttl, now)}
        /\ tok_last' = NoValidation
        /\ UNCHANGED <<sysVars, clockVars, pwdVars, vtmVars>>

\* the subject of a token is rewritten, or its expiry pushed back, without
\* the secret: the signature stays as it was
TokTamper ==
    \E e \in jwts, sub \in UserIds, later \in {0, 60} :
        /\ e.how = "issued"
        /\ sub # e.tok.sub \/ later # 0
        /\ Cardinality(jwts) < MaxJwts
        /\ jwts' = jwts \cup
                {[e EXCEPT !.how = "tampered", !.tok.sub = sub,
                           !.tok.exp = e.tok.exp + later]}
        /\ tok_last' = NoValidation
        /\ UNCHANGED <<sysVars, clockVars, pwdVars, vtmVars>>

TokValidate ==
    \E e \in jwts, secret \in Secrets :
        /\ tok_last' = [entry |-> e, secret |-> secret, at |-> now,
                        res |-> decode_token(e.tok, secret, now)]
        /\ UNCHANGED <<jwts, sysVars, clockVars, pwdVars, vtmVars>>

TokTick ==
    /\ nticks < MaxTicks
    /\ now' = now + 1
    /\ nticks' = nticks + 1
    /\ tok_last' = NoValidation
    /\ UNCHANGED <<jwts, sysVars, pwdVars, vtmVars>>

(***************************************************************************)
(* Specifications.                                                         *)
(***************************************************************************)
IdlePwd ==
    /\ pw_op = "none"
    /\ pw_in = <<>>
    /\ pw_stored = <<>>
    /\ pw_res = PwNone

IdleTok ==
    /\ jwts = {}
    /\ tok_last = NoValidation

\* no caller of the verification-token store calls is followed
IdleVtm == pending = [k \in UserIds \X Purposes |-> NoPending]

IdleSys ==
    /\ users = [i \in UserIds |-> NoUser]
    /\ env = [jwt_secret |-> "secretA", jwt_maxage |-> 60]
    /\ now = 0
    /\ nticks = 0
    /\ mailbox = {}
    /\ last = NoLast
    /\ loginResp = [c \in LoginCases |-> NoResp]
    /\ superseded = {}
    /\ consumed = {}

\* the server has started: the configuration is read, the table holds what
\* it held
Init ==
    /\ \E r1 \in SeedRows1, r2 \in SeedRows2 :
            users = [i \in UserIds |-> IF i = 1 THEN r1 ELSE IF i = 2 THEN r2 ELSE NoUser]
    /\ \E m \in JwtMaxAges : env = [jwt_secret |-> "secretA", jwt_maxage |-> m]
    /\ now = 0
    /\ nticks = 0
    /\ mailbox = {}
    /\ last = NoLast
    /\ loginResp = [c \in LoginCases |-> NoResp]
    /\ superseded = {}
    /\ consumed = {}
    /\ IdlePwd
    /\ IdleTok
    /\ IdleVtm

Next ==
    \/ Register
    \/ Login
    \/ VerifiedToken
    \/ AddVerifiedToken
    \/ GetUserByToken
    \/ Return
    \/ Tick

Spec == Init /\ [][Next]_vars

InitTok == IdleSys /\ IdlePwd /\ IdleTok /\ IdleVtm

NextTok == TokIssue \/ TokTamper \/ TokValidate \/ TokTick

SpecTok == InitTok /\ [][NextTok]_vars

NextReg == RegisterStore \/ Return

\* register's store stage, on the table the server starts with
SpecReg == Init /\ [][NextReg]_vars

InitVtm ==
    /\ \E r1 \in SeedRows1, r2 \in SeedRows2 :
            users = [i \in UserIds |-> IF i = 1 THEN r1 ELSE IF i = 2 THEN r2 ELSE NoUser]
    /\ env = [jwt_secret |-> "secretA", jwt_maxage |-> 60]
    /\ now = 0
    /\ nticks = 0
    /\ mailbox = {}
    /\ last = NoLast
    /\ loginResp = [c \in LoginCases |-> NoResp]
    /\ superseded = {}
    /\ consumed = {}
    /\ IdlePwd
    /\ IdleTok
    /\ pending = PendingOf(users)

NextVtm == Generate \/ Consume \/ Return

SpecVtm == InitVtm /\ [][NextVtm]_vars

InitPwd == IdleSys /\ IdleTok /\ IdleVtm /\ IdlePwd

\* a call of hash() from an idle caller
DoHash ==
    \E p \in Plaintexts :
        /\ pw_op = "none"
        /\ pw_op' = "hash"
        /\ pw_in' = p
        /\ pw_stored' = <<>>
        /\ pw_res' = hash(p)
        /\ UNCHANGED <<sysVars, clockVars, tokVars, vtmVars>>

\* a call of compare() from an idle caller
DoCompare ==
    \E p \in Plaintexts, s \in StoredStrings :
        /\ pw_op = "none"
        /\ pw_op' = "compare"
        /\ pw_in' = p
        /\ pw_stored' = s
        /\ pw_res' = compare(p, s)
        /\ UNCHANGED <<sysVars, clockVars, tokVars, vtmVars>>

\* the caller drops the result and is idle again
PwReturn ==
    /\ pw_op # "none"
    /\ pw_op' = "none"
    /\ pw_in' = <<>>
    /\ pw_stored' = <<>>
    /\ pw_res' = PwNone
    /\ UNCHANGED <<sysVars, clockVars, tokVars, vtmVars>>

NextPwd == DoHash \/ DoCompare \/ PwReturn

SpecPwd == InitPwd /\ [][NextPwd]_vars

(***************************************************************************)
(* Claims about the password routines (checked under SpecPwd).             *)
(***************************************************************************)
ValidLength(p) == ByteLen(p) >= 1 /\ ByteLen(p) <= MAX_PASSWORD_LENGTH

LengthErrors == {"EmptyPassword", "ExceededMaxPasswordLength"}

\* C1: for every plaintext p of 1..128 bytes, hash(p) returns a hash string
\* (it neither fails nor aborts) and compare(p, hash(p)) returns Ok(true).
C1_HashThenCompareIsTrue ==
    (pw_op = "hash" /\ ValidLength(pw_in)) =>
        /\ pw_res.tag = "Ok"
        /\ compare(pw_in, pw_res.str) = PwOk(<<>>, TRUE)

\* C2: hash and compare reject the empty plaintext with the empty-input error
\* and a plaintext of more than 128 bytes with the too-long error, returning
\* neither a hash nor a comparison result; a plaintext of exactly 128 bytes is
\* not rejected by the length check.
C2_LengthRejection ==
    (pw_op \in {"hash", "compare"}) =>
        /\ (ByteLen(pw_in) = 0 => pw_res = PwErr("EmptyPassword"))
        /\ (ByteLen(pw_in) > MAX_PASSWORD_LENGTH =>
                pw_res = PwErr("ExceededMaxPasswordLength"))
        /\ (ByteLen(pw_in) = MAX_PASSWORD_LENGTH =>
                ~(pw_res.tag = "Err" /\ pw_res.err \in LengthErrors))

\* a plaintext of 64 two-byte characters (128 bytes) went through compare's
\* length check and was compared
C2_Witness ==
    /\ pw_op = "compare"
    /\ ByteLen(pw_in) = MAX_PASSWORD_LENGTH
    /\ CharLen(pw_in) < MAX_PASSWORD_LENGTH
    /\ pw_res = PwOk(<<>>, FALSE)

\* C3: for a plaintext of valid length, compare(p, s) fails with the
\* malformed-hash error (and so never returns true) when s does not parse as
\* an encoded hash, and returns Ok(false), not an error, when s parses and
\* does not match p.
C3_MalformedVersusMismatch ==
    (pw_op = "compare" /\ ValidLength(pw_in)) =>
        /\ (~PasswordHashNew(pw_stored).ok => pw_res = PwErr("InvalidHashFormat"))
        /\ (pw_stored = NotAValidHash => pw_res.tag = "Err")
        /\ ((PasswordHashNew(pw_stored).ok
                /\ ~VerifyPassword(pw_in, PasswordHashNew(pw_stored)))
               => pw_res = PwOk(<<>>, FALSE))
        /\ ((pw_stored = GoodHash1 /\ pw_in # Password1) => pw_res = PwOk(<<>>, FALSE))

\* compare("aaaaaaaaa", "not-a-valid-hash") failed with InvalidHashFormat
C3_Witness ==
    /\ pw_op = "compare"
    /\ pw_in = Password1
    /\ pw_stored = NotAValidHash
    /\ pw_res = PwErr("InvalidHashFormat")

(***************************************************************************)
(* Claims about the handlers and the store (checked under Spec).           *)
(***************************************************************************)
\* C4: a login with a registered email and a wrong password is answered
\* with exactly the status code and message of a login with an email that
\* has no user record: the two responses cannot be told apart.
C4_LoginFailuresAlike ==
    /\ (loginResp["nouser"] # NoResp /\ loginResp["wrongpwd"] # NoResp)
            => loginResp["nouser"] = loginResp["wrongpwd"]
    /\ \A c \in LoginCases : loginResp[c] # NoResp => loginResp[c].status = 400

\* both kinds of failed login have been answered, the wrong password last
C4_Witness ==
    /\ loginResp["nouser"] # NoResp
    /\ loginResp["wrongpwd"] # NoResp
    /\ last.op = "login"
    /\ last.known
    /\ last.resp = loginResp["wrongpwd"]

\* C5: a register request with matching passwords on a working store and a
\* new email succeeds and leaves an unverified user with a pending
\* verification token; consuming that token sets verified; a login with the
\* password then succeeds and its session token validates, under the
\* configured secret, to the user's id.
C5_RegisterVerifyLogin ==
    /\ (last.op = "register" /\ last.valid /\ last.fault = "none" /\ ~last.known) =>
            /\ last.resp.status = 201
            /\ \E i \in UserIds :
                    /\ users[i].present
                    /\ users[i].email = last.email
                    /\ ~users[i].verified
                    /\ users[i].verification_token = Some(last.tok)
                    /\ users[i].token_expires_at = SomeTime(now + VERIFY_TTL_MIN)
    /\ (last.op = "verified_token" /\ last.dbok) =>
            \A i \in last.rows : users[i].verified
    /\ (last.op = "login" /\ last.found # 0) =>
            /\ last.resp.status = 200
            /\ decode_token(last.resp.token, env.jwt_secret, now) = TokOk(last.found)

\* C7: on every successful login the Max-Age of the session cookie equals the
\* ttl of the token in the same response (its expiry less its issue time, in
\* seconds).
C7_CookieMaxAgeIsTokenTtl ==
    (last.op = "login" /\ last.resp.status = 200) =>
        last.resp.max_age = (last.resp.token.exp - last.resp.token.iat) * 60

\* C8: once verified_token(t) has succeeded for a token t, every later
\* verified_token(t) fails (with InvalidToken) and changes no user record.
C8_ConsumeAtMostOnce ==
    (last.op = "verified_token" /\ last.prior) =>
        /\ ~last.dbok
        /\ last.newly = {}

\* C9: add_verified_token overwrites the user's stored token and expiry, so
\* once a token of a user has been replaced by another, no lookup and no
\* consume by the replaced value finds that user.
C9_SupersededTokenFindsNoUser ==
    /\ \A p \in superseded :
            /\ p[1] \notin GetUserRows(users, None, None, None, Some(p[2]))
            /\ p[1] \notin TokenRows(users, p[2])
    /\ (last.op = "get_user" => <<last.found, last.tok>> \notin superseded)
    /\ (last.op = "verified_token" =>
            \A i \in last.rows : <<i, last.tok>> \notin superseded)

\* a consume by a token replaced while it was still unexpired (the clock has
\* not moved since the server started) has returned
C9_Witness ==
    /\ nticks = 0
    /\ last.op = "verified_token"
    /\ last.dbok
    /\ \E p \in superseded : p[2] = last.tok

\* C10: consuming a verification token whose stored expiry is in the past
\* fails (with TokenExpired) and does not set the owner's verified flag.
C10_ExpiredTokenNotConsumed ==
    (last.op = "verified_token" /\ last.expired # {}) =>
        /\ ~last.dbok
        /\ last.expired \cap last.newly = {}

(***************************************************************************)
(* Claims about the token service (checked under SpecTok).                 *)
(***************************************************************************)
\* C6: validate(token, secret) returns a subject id only for a token issued
\* for that subject under the same secret whose expiry has not passed; a
\* token signed under another secret fails with InvalidSignature, a token
\* issued with ttl = -1 fails with Expired.
C6_ValidateOnlyGenuineUnexpired ==
    /\ tok_last.res.tag = "Ok" =>
            /\ tok_last.entry.how = "issued"
            /\ tok_last.entry.secret = tok_last.secret
            /\ tok_last.entry.sub = tok_last.res.sub
            /\ tok_last.at <= tok_last.entry.at + tok_last.entry.ttl
    /\ (tok_last.entry.how = "issued" /\ tok_last.secret # tok_last.entry.secret)
            => tok_last.res = TokErr("InvalidSignature")
    /\ (tok_last.entry.how = "issued" /\ tok_last.secret = tok_last.entry.secret
            /\ tok_last.entry.ttl = -1)
            => tok_last.res = TokErr("Expired")

\* a token issued with ttl = -1 was validated under its own secret
C6_Witness ==
    /\ tok_last.entry.how = "issued"
    /\ tok_last.entry.ttl = -1
    /\ tok_last.secret = tok_last.entry.secret
    /\ tok_last.res = TokErr("Expired")

(***************************************************************************)
(* Claims about register's store stage (checked under SpecReg).            *)
(***************************************************************************)
\* C11: register answers 409 'Email already exists' only when the insert
\* failed on the unique index on email; every other failure of the store call
\* (no connection, a failed statement, a failed task) is answered with 500.
C11_DuplicateEmailOnlyOnUniqueViolation ==
    (last.op = "register" /\ last.valid /\ ~last.panic) =>
        /\ last.resp.status = 409 => (last.fault = "none" /\ last.known)
        /\ last.fault # "none" => last.resp.status = 500

\* C12: when save_user has stored the user record and the verification mail
\* could not be sent, register still answers 201 and the record, with its
\* verification token and expiry, is in the table.
C12_MailFailureKeepsRegistration ==
    (last.op = "register" /\ last.dbok /\ last.mail = "failed") =>
        /\ last.resp = Response(201, TRUE, {RegisteredMessage}, NoJwt, -1)
        /\ \E i \in UserIds :
                /\ users[i].present
                /\ users[i].email = last.email
                /\ users[i].verification_token = Some(last.tok)
                /\ users[i].token_expires_at = SomeTime(now + VERIFY_TTL_MIN)
        /\ <<last.email, last.tok>> \notin mailbox

\* a register whose insert succeeded and whose mail failed has been answered
C12_Witness ==
    /\ last.op = "register"
    /\ last.dbok
    /\ last.mail = "failed"
    /\ last.resp.status = 201
    /\ \E i \in UserIds : users[i].present /\ users[i].email = last.email

(***************************************************************************)
(* Claims about the handlers and the store, continued (checked under       *)
(* Spec).                                                                  *)
(***************************************************************************)
\* the rules the specification names for a register body
BreaksRegisterRule(b) ==
    \/ b.password # b.confirm_password
    \/ b.name = <<>>
    \/ ~ValidateEmail(b.email)
    \/ Len(b.password) < 8

\* C13: a register request whose body breaks a validation rule (password
\* differs from confirm_password, empty name, invalid email syntax, password
\* shorter than 8) is answered with 400 and changes nothing: the users table
\* and the mails sent are as before the request.
C13_InvalidRegisterHasNoEffect ==
    [][(last.op = "none" /\ last'.op = "register" /\ BreaksRegisterRule(last'.body)) =>
            /\ last'.resp.status = 400
            /\ ~last'.resp.success
            /\ last'.resp.message # {}
            /\ users' = users
            /\ mailbox' = mailbox]_vars

\* a register whose two passwords differ has been answered with 400
C13_Witness ==
    /\ last.op = "register"
    /\ last.body.password # last.body.confirm_password
    /\ last.resp.status = 400
    /\ "Passwords do not match" \in last.resp.message

\* C14: whichever of an add_verified_token and a verified_token for the same
\* user runs first, the consume does not report success for a token the
\* generate has replaced: a consume that returns Ok has matched a row that
\* still holds the token.
C14_NoSuccessOnSupersededToken ==
    (last.op = "verified_token" /\ last.dbok /\ \E p \in superseded : p[2] = last.tok)
        => last.rows # {}

\* C16: login passes the errors of the password routines through: when the
\* password column of the user found cannot be parsed as a hash, the login
\* is answered with a server error (500), not with the 400 of wrong
\* credentials.
C16_LoginPassesHasherErrors ==
    (/\ last.op = "login"
     /\ last.valid
     /\ last.fault = "none"
     /\ \E i \in UserIds :
            /\ users[i].present
            /\ users[i].email = last.email
            /\ ~PasswordHashNew(users[i].password).ok)
        => last.resp.status = 500

(***************************************************************************)
(* Claims about the callers of the verification-token store calls (checked *)
(* under SpecVtm).                                                         *)
(***************************************************************************)
\* C15: the token a user waits on is kept per purpose: as long as the token
\* generated for <<user, purpose>> was neither consumed nor replaced by a
\* token for the same purpose, the user's row holds it with its expiry, so
\* generating a token for the other purpose leaves it consumable.
C15_TokenStatePerPurpose ==
    \A k \in UserIds \X Purposes :
        pending[k].some =>
            /\ users[k[1]].verification_token = Some(pending[k].v)
            /\ users[k[1]].token_expires_at = SomeTime(pending[k].exp)

====
